---------------------------- MODULE Spec2Model ----------------------------
(***************************************************************************)
(* Model of src/app.py: MedicalTimelineExtractor and the /analyze handler. *)
(*                                                                         *)
(* A Python str is a sequence of one-character strings, so that regular    *)
(* expressions, substring tests, str.replace and the ISO date format are   *)
(* computed character by character as the interpreter computes them.       *)
(* None (an absent date) is the record None; a call that raises is the     *)
(* record Raised, which every try/except of the source turns into None.    *)
(***************************************************************************)
EXTENDS Integers, Sequences, FiniteSets, TLC

(***************************************************************************)
(* Characters and str methods                                              *)
(***************************************************************************)
UpperCase == <<"A","B","C","D","E","F","G","H","I","J","K","L","M","N","O","P","Q","R","S","T","U","V","W","X","Y","Z">>
LowerCase == <<"a","b","c","d","e","f","g","h","i","j","k","l","m","n","o","p","q","r","s","t","u","v","w","x","y","z">>
Digits == <<"0","1","2","3","4","5","6","7","8","9">>

Range(f) == {f[i] : i \in DOMAIN f}

\* \s of the re module, over the characters the inputs use
Whitespace == {" ", "\n", "\t"}
\* \d
DigitSet == Range(Digits)
\* [a-zA-Z]
LetterSet == Range(UpperCase) \cup Range(LowerCase)
\* \w
WordSet == LetterSet \cup DigitSet \cup {"_"}

\* str.lower() on one character
LowerChar(c) ==
    IF c \in Range(UpperCase)
    THEN LowerCase[CHOOSE i \in 1..26 : UpperCase[i] = c]
    ELSE c

\* str.lower()
Lower(s) == [i \in 1..Len(s) |-> LowerChar(s[i])]

\* int() of one decimal digit
DigitVal(c) == (CHOOSE i \in 1..10 : Digits[i] = c) - 1

\* int(s) for a str of decimal digits
RECURSIVE ParseInt(_)
ParseInt(s) == IF s = <<>> THEN 0 ELSE 10 * ParseInt(SubSeq(s, 1, Len(s) - 1)) + DigitVal(s[Len(s)])

\* str.isdigit() for the characters the inputs use
IsDigit(s) == s # <<>> /\ \A i \in 1..Len(s) : s[i] \in DigitSet

\* needle in s: the positions where needle occurs in s
Occurrences(s, needle) ==
    {i \in 1..(Len(s) - Len(needle) + 1) : SubSeq(s, i, i + Len(needle) - 1) = needle}

\* the `in` operator on two str
Contains(s, needle) == Occurrences(s, needle) # {}

\* str.startswith
StartsWith(s, prefix) == Len(s) >= Len(prefix) /\ SubSeq(s, 1, Len(prefix)) = prefix

\* str.strip()
Strip(s) ==
    LET keep == {i \in 1..Len(s) : s[i] \notin Whitespace}
    IN  IF keep = {} THEN <<>>
        ELSE SubSeq(s, CHOOSE i \in keep : \A j \in keep : i <= j,
                       CHOOSE i \in keep : \A j \in keep : i >= j)

\* The elements of s at the positions in keep, in order
Pick(s, keep) ==
    [k \in 1..Cardinality(keep) |->
        s[CHOOSE i \in keep : Cardinality({j \in keep : j <= i}) = k]]

\* re.sub(r'\s+', ' ', s): every run of whitespace becomes one space
StartsRun(p) == p[1] \notin Whitespace \/ ~p[2]
CollapseWhitespace(s) ==
    LET \* each character with whether whitespace precedes it
        pairs == [i \in 1..Len(s) |-> <<s[i], i > 1 /\ s[i - 1] \in Whitespace>>]
        kept == SelectSeq(pairs, StartsRun)
    IN  [k \in 1..Len(kept) |-> IF kept[k][1] \in Whitespace THEN " " ELSE kept[k][1]]

\* s.replace(old, new, count): the first count occurrences, left to right,
\* without overlap; count = -1 replaces every occurrence
RECURSIVE ReplaceCount(_, _, _, _)
ReplaceCount(s, old, new, count) ==
    LET occ == Occurrences(s, old)
    IN  IF occ = {} \/ old = <<>> \/ count = 0 THEN s
        ELSE LET i == CHOOSE i \in occ : \A j \in occ : i <= j
             IN  SubSeq(s, 1, i - 1) \o new
                 \o ReplaceCount(SubSeq(s, i + Len(old), Len(s)), old, new,
                                 IF count > 0 THEN count - 1 ELSE count)

\* a faulty replace that stops after the first occurrence; the description
\* of an event must tell it from s.replace(old, new)
ReplaceFirst(s, old, new) == ReplaceCount(s, old, new, 1)

\* s.replace(old, new) as the source calls it
Replace(s, old, new) == ReplaceCount(s, old, new, -1)

(***************************************************************************)
(* The re module: a backtracking matcher.  Match(re, s, st, ic) is the     *)
(* sequence of match states reachable from st, in the order the engine     *)
(* tries them (greedy repetition first, alternatives left to right); the   *)
(* first one is the match Python reports.  ic is re.IGNORECASE.            *)
(***************************************************************************)
Lit(cs) == [t |-> "lit", cs |-> cs]
Cls(set) == [t |-> "cls", set |-> set]
Cat(xs) == [t |-> "cat", xs |-> xs]
Alt(xs) == [t |-> "alt", xs |-> xs]
Rep(x, lo, hi) == [t |-> "rep", x |-> x, lo |-> lo, hi |-> hi]
Plus(x) == Rep(x, 1, -1)
Star(x) == Rep(x, 0, -1)
Opt(x) == Rep(x, 0, 1)
Grp(n, x) == [t |-> "grp", n |-> n, x |-> x]
WordBoundary == [t |-> "wb"]

NoGroups == [n \in 1..3 |-> <<0, 0>>]
StartAt(i) == [pos |-> i, g |-> NoGroups]

IsWordAt(s, i) == i >= 1 /\ i <= Len(s) /\ s[i] \in WordSet

\* the match states of a group's body, with the group's span recorded
Capture(n, start, inner) ==
    [k \in 1..Len(inner) |-> [inner[k] EXCEPT !.g[n] = <<start, inner[k].pos>>]]

RECURSIVE Match(_, _, _, _), MatchCat(_, _, _, _, _), MatchAlt(_, _, _, _, _),
          MatchRep(_, _, _, _, _), MatchEach(_, _, _, _, _), RepEach(_, _, _, _, _, _)
Match(re, s, st, ic) ==
    CASE re.t = "lit" ->
           LET n == Len(re.cs)
               hit == st.pos + n - 1 <= Len(s)
                      /\ \A j \in 1..n :
                            IF ic THEN LowerChar(s[st.pos + j - 1]) = LowerChar(re.cs[j])
                                  ELSE s[st.pos + j - 1] = re.cs[j]
           IN  IF hit THEN <<[st EXCEPT !.pos = @ + n]>> ELSE <<>>
      [] re.t = "cls" ->
           IF st.pos <= Len(s)
              /\ (s[st.pos] \in re.set \/ (ic /\ LowerChar(s[st.pos]) \in re.set))
           THEN <<[st EXCEPT !.pos = @ + 1]>> ELSE <<>>
      [] re.t = "wb" ->
           IF IsWordAt(s, st.pos - 1) # IsWordAt(s, st.pos) THEN <<st>> ELSE <<>>
      [] re.t = "cat" -> MatchCat(re.xs, 1, s, <<st>>, ic)
      [] re.t = "alt" -> MatchAlt(re.xs, 1, s, st, ic)
      [] re.t = "rep" -> MatchRep(re, s, st, 0, ic)
      [] re.t = "grp" -> Capture(re.n, st.pos, Match(re.x, s, st, ic))

\* the states after xs[k..] from each of the states sts, in order
MatchCat(xs, k, s, sts, ic) ==
    IF k > Len(xs) \/ sts = <<>> THEN sts
    ELSE MatchCat(xs, k + 1, s, MatchEach(xs[k], s, sts, 1, ic), ic)

MatchEach(re, s, sts, k, ic) ==
    IF k > Len(sts) THEN <<>>
    ELSE Match(re, s, sts[k], ic) \o MatchEach(re, s, sts, k + 1, ic)

MatchAlt(xs, k, s, st, ic) ==
    IF k > Len(xs) THEN <<>>
    ELSE Match(xs[k], s, st, ic) \o MatchAlt(xs, k + 1, s, st, ic)

\* greedy x{lo,hi} after n repetitions: one more repetition first, then stop
MatchRep(re, s, st, n, ic) ==
    (IF re.hi = -1 \/ n < re.hi
     THEN RepEach(re, s, Match(re.x, s, st, ic), 1, n + 1, ic)
     ELSE <<>>)
    \o (IF n >= re.lo THEN <<st>> ELSE <<>>)

RepEach(re, s, sts, k, n, ic) ==
    IF k > Len(sts) THEN <<>>
    ELSE MatchRep(re, s, sts[k], n, ic) \o RepEach(re, s, sts, k + 1, n, ic)

\* re.match(re, s): the first match state at the start of s, or <<>>
FirstOf(ms) == IF ms = <<>> THEN <<>> ELSE <<ms[1]>>
ReMatch(re, s, ic) == FirstOf(Match(re, s, StartAt(1), ic))

\* the group n of a match state
Group(s, m, n) == SubSeq(s, m.g[n][1], m.g[n][2] - 1)

\* the leftmost position of tries (position -> match states) that matched,
\* with its first match state: <<[start, m]>>, or <<>>
Leftmost(tries) ==
    LET starts == {i \in DOMAIN tries : tries[i] # <<>>}
    IN  IF starts = {} THEN <<>>
        ELSE LET i == CHOOSE i \in starts : \A j \in starts : i <= j
             IN  <<[start |-> i, m |-> tries[i][1]]>>

\* the scan of the engine: the leftmost match starting at or after position p
SearchFrom(re, s, p, ic) ==
    Leftmost([i \in p..(Len(s) + 1) |-> Match(re, s, StartAt(i), ic)])

\* re.search(re, s)
ReSearch(re, s, ic) == SearchFrom(re, s, 1, ic)

\* re.finditer(re, s): the non-overlapping matches, left to right, as
\* [start, end) position pairs; the scan resumes where a match ended
RECURSIVE FindIterFrom(_, _, _, _), FindIterNext(_, _, _, _)
FindIterFrom(re, s, p, ic) == FindIterNext(re, s, SearchFrom(re, s, p, ic), ic)

FindIterNext(re, s, found, ic) ==
    IF found = <<>> THEN <<>>
    ELSE <<<<found[1].start, found[1].m.pos>>>>
         \o FindIterFrom(re, s, IF found[1].m.pos > found[1].start
                                THEN found[1].m.pos ELSE found[1].m.pos + 1, ic)

FindIter(re, s, ic) == FindIterFrom(re, s, 1, ic)

\* re.split(r'[.!?]+', text): the pieces between the runs of terminators
SentenceEnd == {".", "!", "?"}
ReSplit(text) ==
    LET n == Len(text)
        \* a piece starts at 1 and after every terminator that ends a run
        starts == {1} \cup {i + 1 : i \in {j \in 1..n : text[j] \in SentenceEnd
                                               /\ (j = n \/ text[j + 1] \notin SentenceEnd)}}
        \* and ends before the next terminator, or at the end of the text
        EndOf(b) == LET stops == {j \in b..n : text[j] \in SentenceEnd}
                    IN  IF stops = {} THEN n
                        ELSE (CHOOSE j \in stops : \A k \in stops : j <= k) - 1
        order == Pick([i \in 1..(n + 1) |-> i], starts)
    IN  [k \in 1..Len(order) |-> SubSeq(text, order[k], EndOf(order[k]))]

(***************************************************************************)
(* datetime: proleptic Gregorian dates, years MINYEAR..MAXYEAR             *)
(***************************************************************************)
MINYEAR == 1
MAXYEAR == 9999

\* None, and the marker of a call that raised (ValueError, OverflowError)
None == [year |-> 0, month |-> 0, day |-> 0]
Raised == [year |-> -1, month |-> 0, day |-> 0]

IsLeap(y) == y % 4 = 0 /\ (y % 100 # 0 \/ y % 400 = 0)

\* a faulty calendar without leap days; the month arithmetic must tell it
\* from calendar.monthrange
DaysInMonthNoLeap(y, m) ==
    IF m = 2 THEN 28 ELSE IF m \in {4, 6, 9, 11} THEN 30 ELSE 31

\* calendar.monthrange(year, month)[1]; a year outside MINYEAR..MAXYEAR is
\* taken modulo 400, which leaves the leap rule unchanged
DaysInMonth(y, m) ==
    IF m = 2 THEN (IF IsLeap(y) THEN 29 ELSE 28)
    ELSE IF m \in {4, 6, 9, 11} THEN 30 ELSE 31

\* datetime(y, m, d).date(): ValueError outside the calendar
MakeDate(y, m, d) ==
    IF y >= MINYEAR /\ y <= MAXYEAR /\ m >= 1 /\ m <= 12 /\ d >= 1 /\ d <= DaysInMonth(y, m)
    THEN [year |-> y, month |-> m, day |-> d]
    ELSE Raised

DaysBeforeYear(y) ==
    (y - 1) * 365 + ((y - 1) \div 4) - ((y - 1) \div 100) + ((y - 1) \div 400)

RECURSIVE DaysBeforeMonth(_, _)
DaysBeforeMonth(y, m) ==
    IF m <= 1 THEN 0 ELSE DaysBeforeMonth(y, m - 1) + DaysInMonth(y, m - 1)

\* date.toordinal(): 0001-01-01 is day 1
ToOrdinal(d) == DaysBeforeYear(d.year) + DaysBeforeMonth(d.year, d.month) + d.day

\* date.fromordinal(n), by the 400/100/4/1-year cycles
FromOrdinal(ord) ==
    LET n0 == ord - 1
        n400 == n0 \div 146097
        r400 == n0 % 146097
        n100 == r400 \div 36524
        r100 == r400 % 36524
        n4 == r100 \div 1461
        r4 == r100 % 1461
        n1 == r4 \div 365
        r1 == r4 % 365
        y == n400 * 400 + n100 * 100 + n4 * 4 + n1 + 1
    IN  IF n1 = 4 \/ n100 = 4 THEN [year |-> y - 1, month |-> 12, day |-> 31]
        ELSE LET m == CHOOSE m \in 1..12 :
                         DaysBeforeMonth(y, m) <= r1 /\ r1 < DaysBeforeMonth(y, m + 1)
             IN  [year |-> y, month |-> m, day |-> r1 - DaysBeforeMonth(y, m) + 1]

\* (d + timedelta(days=n)).date(): OverflowError outside the calendar
AddDays(d, n) ==
    LET o == ToOrdinal(d) + n
    IN  IF o >= 1 /\ o <= ToOrdinal([year |-> MAXYEAR, month |-> 12, day |-> 31])
        THEN FromOrdinal(o) ELSE Raised

\* '%0*d': n in decimal, zero-padded to width digits
RECURSIVE Pad(_, _)
Pad(n, width) ==
    IF width <= 1 /\ n < 10 THEN <<Digits[n + 1]>>
    ELSE Pad(n \div 10, width - 1) \o <<Digits[(n % 10) + 1]>>

\* date.isoformat(): YYYY-MM-DD
IsoFormat(d) == Pad(d.year, 4) \o <<"-">> \o Pad(d.month, 2) \o <<"-">> \o Pad(d.day, 2)

\* a try block whose except clause returns None
Try(v) == IF v = Raised THEN None ELSE v

(***************************************************************************)
(* MedicalTimelineExtractor                                                *)
(***************************************************************************)
Categories == <<"Disease Onset/Progression", "Treatment", "Appointment/Scheduling",
                "Other Clinical Observations">>

medical_keywords ==
    << <<<<"s","y","m","p","t","o","m","s">>, <<"b","e","g","a","n">>, <<"s","t","a","r","t","e","d">>, <<"o","n","s","e","t">>, <<"d","e","v","e","l","o","p","e","d">>, <<"a","p","p","e","a","r","e","d">>,
         <<"w","o","r","s","e","n","e","d">>, <<"i","m","p","r","o","v","e","d">>, <<"s","u","b","s","i","d","e","d">>, <<"r","e","s","o","l","v","e","d">>, <<"f","e","v","e","r">>, <<"c","o","u","g","h">>,
         <<"p","a","i","n">>, <<"h","e","a","d","a","c","h","e">>, <<"n","a","u","s","e","a">>, <<"f","a","t","i","g","u","e">>, <<"w","e","a","k","n","e","s","s">>, <<"d","i","z","z","y">>>>,
       <<<<"m","e","d","i","c","a","t","i","o","n">>, <<"p","r","e","s","c","r","i","b","e","d">>, <<"s","t","a","r","t","e","d">>, <<"c","o","m","p","l","e","t","e","d">>, <<"t","r","e","a","t","m","e","n","t">>,
         <<"t","h","e","r","a","p","y">>, <<"s","u","r","g","e","r","y">>, <<"p","r","o","c","e","d","u","r","e">>, <<"d","o","s","e">>, <<"m","g">>, <<"a","d","m","i","n","i","s","t","e","r","e","d">>,
         <<"a","n","t","i","b","i","o","t","i","c">>, <<"m","e","d","i","c","i","n","e">>, <<"d","r","u","g">>, <<"i","n","j","e","c","t","i","o","n">>, <<"i","n","f","u","s","i","o","n">>>>,
       <<<<"a","p","p","o","i","n","t","m","e","n","t">>, <<"v","i","s","i","t">>, <<"s","c","h","e","d","u","l","e","d">>, <<"f","o","l","l","o","w","-","u","p">>, <<"c","o","n","s","u","l","t","a","t","i","o","n">>,
         <<"t","e","s","t">>, <<"e","x","a","m">>, <<"x","-","r","a","y">>, <<"s","c","a","n">>, <<"l","a","b">>, <<"b","l","o","o","d"," ","w","o","r","k">>, <<"r","e","s","u","l","t","s">>>>,
       <<<<"o","b","s","e","r","v","e","d">>, <<"n","o","t","e","d">>, <<"r","e","p","o","r","t","s">>, <<"p","r","e","s","e","n","t","s">>, <<"e","x","a","m","i","n","a","t","i","o","n">>,
         <<"a","s","s","e","s","s","m","e","n","t">>, <<"d","i","a","g","n","o","s","i","s">>, <<"c","o","n","d","i","t","i","o","n">>, <<"p","a","t","i","e","n","t">>, <<"c","l","i","n","i","c","a","l">>>> >>

medical_indicators ==
    <<<<"p","a","t","i","e","n","t">>, <<"s","y","m","p","t","o","m","s">>, <<"d","i","a","g","n","o","s","i","s">>, <<"t","r","e","a","t","m","e","n","t">>, <<"m","e","d","i","c","a","t","i","o","n">>,
      <<"t","e","s","t">>, <<"e","x","a","m">>, <<"r","e","s","u","l","t","s">>, <<"a","p","p","o","i","n","t","m","e","n","t">>, <<"v","i","s","i","t">>, <<"p","r","e","s","c","r","i","b","e","d">>>>

DateNotSpecified == <<"D","a","t","e"," ","n","o","t"," ","s","p","e","c","i","f","i","e","d">>

\* the 'date' of an event without a date (None in the JSON)
NoDate == <<"None">>

\* pieces of the patterns
Digit == Cls(DigitSet)
Spaces == Plus(Cls(Whitespace))
Separator == Cls({"/", "-"})
OrdinalSuffix == Alt(<<Lit(<<"s","t">>), Lit(<<"n","d">>), Lit(<<"r","d">>), Lit(<<"t","h">>)>>)
FullMonth ==
    Alt(<<Lit(<<"J","a","n","u","a","r","y">>), Lit(<<"F","e","b","r","u","a","r","y">>), Lit(<<"M","a","r","c","h">>), Lit(<<"A","p","r","i","l">>),
          Lit(<<"M","a","y">>), Lit(<<"J","u","n","e">>), Lit(<<"J","u","l","y">>), Lit(<<"A","u","g","u","s","t">>),
          Lit(<<"S","e","p","t","e","m","b","e","r">>), Lit(<<"O","c","t","o","b","e","r">>), Lit(<<"N","o","v","e","m","b","e","r">>), Lit(<<"D","e","c","e","m","b","e","r">>)>>)
AbbrMonth ==
    Alt(<<Lit(<<"J","a","n">>), Lit(<<"F","e","b">>), Lit(<<"M","a","r">>), Lit(<<"A","p","r">>), Lit(<<"M","a","y">>),
          Lit(<<"J","u","n">>), Lit(<<"J","u","l">>), Lit(<<"A","u","g">>), Lit(<<"S","e","p">>), Lit(<<"O","c","t">>),
          Lit(<<"N","o","v">>), Lit(<<"D","e","c">>)>>)
\* ,\s*|\s+
CommaOrSpaces == Alt(<<Cat(<<Lit(<<",">>), Star(Cls(Whitespace))>>), Spaces>>)
\* three|two|one|\d+
Number == Alt(<<Lit(<<"t","h","r","e","e">>), Lit(<<"t","w","o">>), Lit(<<"o","n","e">>), Plus(Digit)>>)
\* weeks?|days?|months?|years?
Unit ==
    Alt(<<Cat(<<Lit(<<"w","e","e","k">>), Opt(Lit(<<"s">>))>>), Cat(<<Lit(<<"d","a","y">>), Opt(Lit(<<"s">>))>>),
          Cat(<<Lit(<<"m","o","n","t","h">>), Opt(Lit(<<"s">>))>>), Cat(<<Lit(<<"y","e","a","r">>), Opt(Lit(<<"s">>))>>)>>)
NumberUnit == Cat(<<Number, Spaces, Unit>>)

absolute_patterns ==
    << Cat(<<WordBoundary, Rep(Digit, 1, 2), OrdinalSuffix, Spaces,
             Opt(Cat(<<Lit(<<"o","f">>), Spaces>>)), FullMonth, Spaces, Rep(Digit, 4, 4),
             WordBoundary>>),
       Cat(<<WordBoundary, FullMonth, Spaces, Rep(Digit, 1, 2), CommaOrSpaces,
             Rep(Digit, 4, 4), WordBoundary>>),
       Cat(<<WordBoundary, AbbrMonth, Spaces, Rep(Digit, 1, 2), CommaOrSpaces,
             Rep(Digit, 4, 4), WordBoundary>>),
       Cat(<<WordBoundary, Rep(Digit, 1, 2), Opt(OrdinalSuffix), Spaces, AbbrMonth, Spaces,
             Rep(Digit, 4, 4), WordBoundary>>),
       Cat(<<WordBoundary, Rep(Digit, 1, 2), Separator, Rep(Digit, 1, 2), Separator,
             Rep(Digit, 2, 4), WordBoundary>>),
       Cat(<<WordBoundary, Rep(Digit, 4, 4), Separator, Rep(Digit, 1, 2), Separator,
             Rep(Digit, 1, 2), WordBoundary>>),
       Cat(<<WordBoundary, Lit(<<"t","o","d","a","y">>), WordBoundary>>),
       Cat(<<WordBoundary, Lit(<<"y","e","s","t","e","r","d","a","y">>), WordBoundary>>),
       Cat(<<WordBoundary, Lit(<<"t","o","m","o","r","r","o","w">>), WordBoundary>>) >>

relative_patterns ==
    << Cat(<<WordBoundary, NumberUnit, Spaces, Lit(<<"a","g","o">>), WordBoundary>>),
       Cat(<<WordBoundary, NumberUnit, Spaces,
             Alt(<<Lit(<<"p","r","i","o","r">>), Lit(<<"b","e","f","o","r","e">>), Lit(<<"e","a","r","l","i","e","r">>)>>), WordBoundary>>),
       Cat(<<WordBoundary, Alt(<<Lit(<<"i","n">>), Lit(<<"a","f","t","e","r">>)>>), Spaces, NumberUnit,
             WordBoundary>>),
       Cat(<<WordBoundary, NumberUnit, Spaces, Alt(<<Lit(<<"f","r","o","m"," ","n","o","w">>), Lit(<<"l","a","t","e","r">>)>>),
             WordBoundary>>),
       Cat(<<WordBoundary, Lit(<<"a","f","t","e","r">>), Spaces, Plus(Digit), Spaces, Lit(<<"d","a","y">>),
             Opt(Lit(<<"s">>)), WordBoundary>>),
       Cat(<<WordBoundary, Alt(<<Lit(<<"l","a","s","t">>), Lit(<<"n","e","x","t">>)>>), Spaces,
             Alt(<<Lit(<<"w","e","e","k">>), Lit(<<"m","o","n","t","h">>), Lit(<<"y","e","a","r">>)>>), WordBoundary>>),
       Cat(<<WordBoundary, Lit(<<"f","o","r">>), Spaces, Lit(<<"t","h","e">>), Spaces, Lit(<<"p","a","s","t">>),
             Spaces, NumberUnit, WordBoundary>>) >>

all_patterns == absolute_patterns \o relative_patterns

month_names ==
    << <<<<"j","a","n">>, <<"j","a","n","u","a","r","y">>>>, <<<<"f","e","b">>, <<"f","e","b","r","u","a","r","y">>>>, <<<<"m","a","r">>, <<"m","a","r","c","h">>>>,
       <<<<"a","p","r">>, <<"a","p","r","i","l">>>>, <<<<"m","a","y">>>>, <<<<"j","u","n">>, <<"j","u","n","e">>>>, <<<<"j","u","l">>, <<"j","u","l","y">>>>,
       <<<<"a","u","g">>, <<"a","u","g","u","s","t">>>>, <<<<"s","e","p">>, <<"s","e","p","t","e","m","b","e","r">>>>, <<<<"o","c","t">>, <<"o","c","t","o","b","e","r">>>>,
       <<<<"n","o","v">>, <<"n","o","v","e","m","b","e","r">>>>, <<<<"d","e","c">>, <<"d","e","c","e","m","b","e","r">>>> >>

\* month_names.get(name): 0 stands for None
MonthNum(name) ==
    IF \E m \in 1..12 : name \in Range(month_names[m])
    THEN CHOOSE m \in 1..12 : name \in Range(month_names[m])
    ELSE 0

\* the formats _simple_date_parse tries, in order; groups are numbered
OrdinalFormat ==
    Cat(<<Grp(1, Rep(Digit, 1, 2)), OrdinalSuffix, Spaces, Opt(Cat(<<Lit(<<"o","f">>), Spaces>>)),
          Grp(2, Plus(Cls(LetterSet))), Spaces, Grp(3, Rep(Digit, 4, 4))>>)
MonthNameFormat ==
    Cat(<<Grp(1, Plus(Cls(LetterSet))), Spaces, Grp(2, Rep(Digit, 1, 2)), CommaOrSpaces,
          Grp(3, Rep(Digit, 4, 4))>>)
ReverseFormat ==
    Cat(<<Grp(1, Rep(Digit, 1, 2)), Opt(OrdinalSuffix), Spaces, Grp(2, Plus(Cls(LetterSet))),
          Spaces, Grp(3, Rep(Digit, 4, 4))>>)
MonthDayYearFormat ==
    Cat(<<Grp(1, Rep(Digit, 1, 2)), Separator, Grp(2, Rep(Digit, 1, 2)), Separator,
          Grp(3, Rep(Digit, 2, 4))>>)
YearMonthDayFormat ==
    Cat(<<Grp(1, Rep(Digit, 4, 4)), Separator, Grp(2, Rep(Digit, 1, 2)), Separator,
          Grp(3, Rep(Digit, 1, 2))>>)

\* one of the three formats with a month name: when m matched and its month
\* group names a month, the date of its groups (None on ValueError);
\* otherwise the next format
NamedFormat(date_text, m, day, month, otherwise) ==
    IF m # <<>> /\ MonthNum(Lower(Group(date_text, m[1], month))) # 0
    THEN Try(MakeDate(ParseInt(Group(date_text, m[1], 3)),
                      MonthNum(Lower(Group(date_text, m[1], month))),
                      ParseInt(Group(date_text, m[1], day))))
    ELSE otherwise

\* 2-digit years: below 50 in the 2000s, else in the 1900s
PivotYear(year) == IF year < 100 THEN (IF year < 50 THEN 2000 + year ELSE 1900 + year) ELSE year

\* MM/DD/YYYY or MM-DD-YYYY
MonthDayYear(date_text, m, otherwise) ==
    IF m # <<>>
    THEN Try(MakeDate(PivotYear(ParseInt(Group(date_text, m[1], 3))),
                      ParseInt(Group(date_text, m[1], 1)), ParseInt(Group(date_text, m[1], 2))))
    ELSE otherwise

\* YYYY/MM/DD or YYYY-MM-DD
YearMonthDay(date_text, m) ==
    IF m # <<>>
    THEN Try(MakeDate(ParseInt(Group(date_text, m[1], 1)), ParseInt(Group(date_text, m[1], 2)),
                      ParseInt(Group(date_text, m[1], 3))))
    ELSE None

\* the formats in the order of the source, on the normalised text
TryFormats(date_text) ==
    NamedFormat(date_text, ReMatch(OrdinalFormat, date_text, TRUE), 1, 2,
      NamedFormat(date_text, ReMatch(MonthNameFormat, date_text, TRUE), 2, 1,
        NamedFormat(date_text, ReMatch(ReverseFormat, date_text, TRUE), 1, 2,
          MonthDayYear(date_text, ReMatch(MonthDayYearFormat, date_text, FALSE),
            YearMonthDay(date_text, ReMatch(YearMonthDayFormat, date_text, FALSE))))))

_simple_date_parse(date_text) == TryFormats(CollapseWhitespace(Strip(date_text)))

\* a faulty carry that runs each loop at most once; the month arithmetic
\* must tell it from the while loops
CarryOnce(year, month) ==
    IF month > 12 THEN <<year + 1, month - 12>>
    ELSE IF month < 1 THEN <<year - 1, month + 12>>
    ELSE <<year, month>>

\* the while loops of _add_months: <<year, month>> with month in 1..12
RECURSIVE CarryMonths(_, _)
CarryMonths(year, month) ==
    IF month > 12 THEN CarryMonths(year + 1, month - 12)
    ELSE IF month < 1 THEN CarryMonths(year - 1, month + 12)
    ELSE <<year, month>>

Min(a, b) == IF a <= b THEN a ELSE b

\* the try block of _add_months on the carried <<year, month>>, and its
\* except clause.  Raised when the target year is outside MINYEAR..MAXYEAR:
\* the except clause builds the date again and its ValueError leaves the
\* function
ClampDay(ym, day) ==
    IF MakeDate(ym[1], ym[2], day) # Raised THEN MakeDate(ym[1], ym[2], day)
    ELSE MakeDate(ym[1], ym[2], Min(day, DaysInMonth(ym[1], ym[2])))

_add_months(date, months) == ClampDay(CarryMonths(date.year, date.month + months), date.day)

\* number_map.get(number_text, int(number_text) if number_text.isdigit() else 1)
NumberOf(number_text) ==
    IF number_text = <<"o","n","e">> THEN 1
    ELSE IF number_text = <<"t","w","o">> THEN 2
    ELSE IF number_text = <<"t","h","r","e","e">> THEN 3
    ELSE IF IsDigit(number_text) THEN ParseInt(number_text) ELSE 1

\* the reference date moved by sign * number units
Shift(reference_date, number, unit, sign) ==
    IF Contains(unit, <<"d","a","y">>) THEN Try(AddDays(reference_date, sign * number))
    ELSE IF Contains(unit, <<"w","e","e","k">>) THEN Try(AddDays(reference_date, sign * 7 * number))
    ELSE IF Contains(unit, <<"m","o","n","t","h">>) THEN Try(_add_months(reference_date, sign * number))
    ELSE IF Contains(unit, <<"y","e","a","r">>) THEN Try(_add_months(reference_date, sign * number * 12))
    ELSE None

NumberUnitGroups == Cat(<<Grp(1, Number), Spaces, Grp(2, Unit)>>)
PastDurationFormat ==
    Cat(<<Lit(<<"f","o","r">>), Spaces, Lit(<<"t","h","e">>), Spaces, Lit(<<"p","a","s","t">>), Spaces,
          NumberUnitGroups>>)

\* the reference date moved by the number and unit of the search result
\* found in low, None when the search found nothing
ShiftFound(reference_date, low, found, sign) ==
    IF found = <<>> THEN None
    ELSE Shift(reference_date, NumberOf(Group(low, found[1].m, 1)),
               Group(low, found[1].m, 2), sign)

_parse_past_duration(reference_date, date_text) ==
    ShiftFound(reference_date, Lower(date_text),
               ReSearch(PastDurationFormat, Lower(date_text), FALSE), -1)

_parse_relative_past(reference_date, date_text) ==
    ShiftFound(reference_date, Lower(date_text),
               ReSearch(NumberUnitGroups, Lower(date_text), FALSE), -1)

_parse_relative_future(reference_date, date_text) ==
    ShiftFound(reference_date, Lower(date_text),
               ReSearch(NumberUnitGroups, Lower(date_text), FALSE), 1)

\* 'last week/month/year' (sign -1) and 'next week/month/year' (sign 1)
TimeReference(reference_date, date_text, sign) ==
    LET low == Lower(date_text)
    IN  IF Contains(low, <<"w","e","e","k">>) THEN Try(AddDays(reference_date, sign * 7))
        ELSE IF Contains(low, <<"m","o","n","t","h">>) THEN Try(_add_months(reference_date, sign))
        ELSE IF Contains(low, <<"y","e","a","r">>) THEN Try(_add_months(reference_date, sign * 12))
        ELSE None

\* a faulty parser that resolves no 'last ...' expression; the timeline of
\* the sample note must tell it from _parse_last_time_reference
NoLastReference(reference_date, date_text) == None

_parse_last_time_reference(reference_date, date_text) ==
    TimeReference(reference_date, date_text, -1)

_parse_next_time_reference(reference_date, date_text) ==
    TimeReference(reference_date, date_text, 1)

_normalize_date(reference_date, date_text) ==
    LET low == Lower(date_text)
    IN  IF Contains(low, <<"t","o","d","a","y">>) THEN reference_date
        ELSE IF Contains(low, <<"y","e","s","t","e","r","d","a","y">>) THEN Try(AddDays(reference_date, -1))
        ELSE IF Contains(low, <<"t","o","m","o","r","r","o","w">>) THEN Try(AddDays(reference_date, 1))
        ELSE IF Contains(low, <<"f","o","r"," ","t","h","e"," ","p","a","s","t">>)
        THEN _parse_past_duration(reference_date, date_text)
        ELSE IF Contains(low, <<"a","g","o">>) \/ Contains(low, <<"p","r","i","o","r">>)
                \/ Contains(low, <<"b","e","f","o","r","e">>) \/ Contains(low, <<"e","a","r","l","i","e","r">>)
        THEN _parse_relative_past(reference_date, date_text)
        ELSE IF Contains(low, <<"f","r","o","m"," ","n","o","w">>) \/ Contains(low, <<"l","a","t","e","r">>)
                \/ StartsWith(low, <<"i","n"," ">>) \/ StartsWith(low, <<"a","f","t","e","r"," ">>)
        THEN _parse_relative_future(reference_date, date_text)
        ELSE IF Contains(low, <<"l","a","s","t">>)
        THEN _parse_last_time_reference(reference_date, date_text)
        ELSE IF Contains(low, <<"n","e","x","t">>)
        THEN _parse_next_time_reference(reference_date, date_text)
        ELSE _simple_date_parse(date_text)

\* one regex hit: the matched text and what _normalize_date makes of it
Hit(reference_date, k, start, date_text) ==
    [pattern |-> k, start |-> start, original_text |-> date_text,
     normalized_date |-> _normalize_date(reference_date, date_text)]

\* the hits of pattern k at the spans finditer yields
HitsAt(reference_date, sentence, k, spans) ==
    [j \in 1..Len(spans) |->
        Hit(reference_date, k, spans[j][1], SubSeq(sentence, spans[j][1], spans[j][2] - 1))]

\* every regex hit of the sentence, in the order of the two loops (patterns
\* k.., then matches left to right)
RECURSIVE RegexHits(_, _, _)
RegexHits(reference_date, sentence, k) ==
    IF k > Len(all_patterns) THEN <<>>
    ELSE HitsAt(reference_date, sentence, k, FindIter(all_patterns[k], sentence, TRUE))
         \o RegexHits(reference_date, sentence, k + 1)

\* 'high' if pattern in absolute_patterns else 'medium'
ConfidenceOf(k) == IF k <= Len(absolute_patterns) THEN "high" ELSE "medium"

\* a faulty test that keeps every hit; the events of a sentence must tell it
\* from `if normalized_date`
KeptAll(hit) == TRUE

\* if normalized_date: the hit is appended to dates
Kept(hit) == hit.normalized_date # None

\* the entries of dates for the hits kept
DateMatches(kept) ==
    [j \in 1..Len(kept) |->
        [original_text |-> kept[j].original_text,
         normalized_date |-> kept[j].normalized_date,
         confidence |-> ConfidenceOf(kept[j].pattern)]]

_extract_dates_from_sentence(reference_date, sentence) ==
    DateMatches(SelectSeq(RegexHits(reference_date, sentence, 1), Kept))

\* sum(1 for keyword in keywords if keyword in text_lower)
Score(text_lower, keywords) ==
    Cardinality({i \in 1..Len(keywords) : Contains(text_lower, keywords[i])})

\* a faulty max that lets a later item replace an equal best; the category
\* must tell it from max()
RECURSIVE MaxFromLast(_, _, _)
MaxFromLast(scores, k, best) ==
    IF k > Len(scores) THEN best
    ELSE MaxFromLast(scores, k + 1, IF scores[k] >= scores[best] THEN k ELSE best)

\* max(items, key=score): the items in order, a later one replaces the best
\* only when its score is larger
RECURSIVE MaxFrom(_, _, _)
MaxFrom(scores, k, best) ==
    IF k > Len(scores) THEN best
    ELSE MaxFrom(scores, k + 1, IF scores[k] > scores[best] THEN k ELSE best)

\* not any(category_scores.values()), else the category of the max
Decide(category_scores) ==
    IF \A c \in 1..Len(category_scores) : category_scores[c] = 0
    THEN "Other Clinical Observations"
    ELSE Categories[MaxFrom(category_scores, 2, 1)]

_categorize_event(text) ==
    Decide([c \in 1..Len(Categories) |-> Score(Lower(text), medical_keywords[c])])

\* cleaned if cleaned else sentence
OrElse(cleaned, sentence) == IF cleaned # <<>> THEN cleaned ELSE sentence

_clean_event_description(sentence, date_text) ==
    OrElse(CollapseWhitespace(Strip(Replace(sentence, date_text, <<>>))), sentence)

\* a faulty test that takes every sentence for medical; the events of a
\* sentence must tell it from _has_medical_content
HasAnyContent(sentence) == sentence # <<>>

_has_medical_content(sentence) ==
    \E i \in 1..Len(medical_indicators) : Contains(Lower(sentence), medical_indicators[i])

\* the body of the loop of extract_dates_and_events: the events appended
\* for a stripped sentence with its extracted_dates
LoopBody(sentence, extracted_dates) ==
    IF sentence = <<>> THEN <<>>
    ELSE IF extracted_dates # <<>>
    THEN [j \in 1..Len(extracted_dates) |->
             [original_text |-> sentence,
              date |-> IF extracted_dates[j].normalized_date # None
                       THEN IsoFormat(extracted_dates[j].normalized_date) ELSE NoDate,
              date_text |-> extracted_dates[j].original_text,
              event_description |->
                  _clean_event_description(sentence, extracted_dates[j].original_text),
              category |-> _categorize_event(sentence),
              confidence |-> extracted_dates[j].confidence]]
    ELSE IF _has_medical_content(sentence)
    THEN << [original_text |-> sentence, date |-> NoDate,
             date_text |-> DateNotSpecified, event_description |-> sentence,
             category |-> _categorize_event(sentence), confidence |-> "low"] >>
    ELSE <<>>

SentenceEvents(reference_date, sentence) ==
    LoopBody(sentence, _extract_dates_from_sentence(reference_date, sentence))

\* what one iteration of the loop of extract_dates_and_events did: the
\* stripped sentence, its regex hits and the events appended for it
SentenceRecord(reference_date, sentence) ==
    [sentence |-> sentence,
     hits |-> RegexHits(reference_date, sentence, 1),
     events |-> SentenceEvents(reference_date, sentence)]

LoopRecords(reference_date, pieces) ==
    [k \in 1..Len(pieces) |-> SentenceRecord(reference_date, Strip(pieces[k]))]

\* the list `events` after the iterations k.. of the loop
RECURSIVE EventsOf(_, _)
EventsOf(records, k) ==
    IF k > Len(records) THEN <<>> ELSE records[k].events \o EventsOf(records, k + 1)

extract_dates_and_events(reference_date, text) ==
    EventsOf(LoopRecords(reference_date, ReSplit(text)), 1)

(***************************************************************************)
(* analyze_medical_text: the handler of POST /analyze                      *)
(***************************************************************************)
\* code points of the characters of an ISO date, for the str comparison
CodePoint(c) == IF c = "-" THEN 45 ELSE 48 + DigitVal(c)

\* a < b on two str: the first differing character decides, a proper prefix
\* is smaller
StrLess(a, b) ==
    \E i \in 1..(Len(b)) :
        /\ i <= Len(a) + 1
        /\ \A j \in 1..(i - 1) : a[j] = b[j]
        /\ (i = Len(a) + 1 \/ CodePoint(a[i]) < CodePoint(b[i]))

\* a faulty insertion that puts e before the elements of equal date; the
\* order of the response must tell it from list.sort
InsertBeforeEqual(run, e) ==
    LET n == Cardinality({i \in 1..Len(run) : StrLess(run[i].date, e.date)})
    IN  SubSeq(run, 1, n) \o <<e>> \o SubSeq(run, n + 1, Len(run))

\* the place list.sort gives e in the sorted run: after every element that
\* is not greater (binary insertion, which keeps equal keys in order)
InsertByDate(run, e) ==
    LET n == Cardinality({i \in 1..Len(run) : ~StrLess(e.date, run[i].date)})
    IN  SubSeq(run, 1, n) \o <<e>> \o SubSeq(run, n + 1, Len(run))

\* dated_events.sort(key=lambda x: x['date'])
RECURSIVE SortByDate(_, _)
SortByDate(list, k) ==
    IF k = 0 THEN <<>> ELSE InsertByDate(SortByDate(list, k - 1), list[k])

HasDate(e) == e.date # NoDate
HasNoDate(e) == e.date = NoDate

\* the JSON body of a response
Success(events, dated, undated, total) ==
    [status |-> 200, success |-> TRUE, events |-> events, dated_events |-> dated,
     undated_events |-> undated, total_events |-> total]
Failure(status) ==
    [status |-> status, success |-> FALSE, events |-> <<>>, dated_events |-> 0,
     undated_events |-> 0, total_events |-> 0]
NoResponse == Failure(0)

\* a faulty response that lists the undated events first; the order of the
\* response must tell it from analyze_medical_text
TimelineUndatedFirst(all) ==
    LET dated == SelectSeq(all, HasDate)
        dated_events == SortByDate(dated, Len(dated))
        undated_events == SelectSeq(all, HasNoDate)
    IN  Success(undated_events \o dated_events, Len(dated_events), Len(undated_events),
                Len(all))

\* the response of analyze_medical_text: the dated events sorted by date, then the undated ones
Timeline(all) ==
    LET dated == SelectSeq(all, HasDate)
        dated_events == SortByDate(dated, Len(dated))
        undated_events == SelectSeq(all, HasNoDate)
    IN  Success(dated_events \o undated_events, Len(dated_events), Len(undated_events),
                Len(all))

\* the note served by /sample
sample_text ==
    <<"P","a","t","i","e","n","t"," ","N","a","m","e",":"," ","J","a","n","e"," ","S","m","i","t","h","\n">>
    \o <<"D","a","t","e"," ","o","f"," ","V","i","s","i","t",":"," ","A","u","g","u","s","t"," ","2","2",","," ">>
    \o <<"2","0","2","5","\n","\n","P","a","t","i","e","n","t"," ","p","r","e","s","e","n","t","s"," ","w","i","t","h"," ">>
    \o <<"a"," ","p","e","r","s","i","s","t","e","n","t"," ","c","o","u","g","h"," ","a","n","d"," ","f","e","v","e","r","."," ">>
    \o <<"S","h","e"," ","r","e","p","o","r","t","s"," ","t","h","a","t"," ","t","h","e"," ","s","y","m","p","t","o","m","s"," ">>
    \o <<"b","e","g","a","n"," ","a","p","p","r","o","x","i","m","a","t","e","l","y"," ","t","h","r","e","e"," ">>
    \o <<"w","e","e","k","s"," ","a","g","o","."," ","T","h","e"," ","f","e","v","e","r"," ","s","u","b","s","i","d","e","d"," ">>
    \o <<"a","f","t","e","r"," ","5"," ","d","a","y","s",","," ","b","u","t"," ","t","h","e"," ","c","o","u","g","h"," ">>
    \o <<"h","a","s"," ","r","e","m","a","i","n","e","d",".","\n","\n","W","e"," ","s","t","a","r","t","e","d"," ">>
    \o <<"h","e","r"," ","o","n"," ","a"," ","c","o","u","r","s","e"," ","o","f"," ","A","z","i","t","h","r","o","m","y","c","i","n"," ">>
    \o <<"2","5","0","m","g"," ","f","o","r"," ","5"," ","d","a","y","s",","," ","w","h","i","c","h"," ">>
    \o <<"s","h","e"," ","c","o","m","p","l","e","t","e","d"," ","y","e","s","t","e","r","d","a","y",".","\n">>
    \o <<"\n","A"," ","c","h","e","s","t"," ","X","-","r","a","y"," ","w","a","s"," ","p","e","r","f","o","r","m","e","d"," ">>
    \o <<"t","o","d","a","y","."," ","R","e","s","u","l","t","s"," ","a","r","e"," ","p","e","n","d","i","n","g","."," ">>
    \o <<"W","e"," ","h","a","v","e"," ","s","c","h","e","d","u","l","e","d"," ","a"," ","f","o","l","l","o","w","-","u","p"," ">>
    \o <<"a","p","p","o","i","n","t","m","e","n","t"," ","f","o","r"," ","t","w","o"," ","w","e","e","k","s"," ">>
    \o <<"f","r","o","m"," ","n","o","w"," ","t","o"," ","d","i","s","c","u","s","s"," ","t","h","e"," ">>
    \o <<"r","e","s","u","l","t","s"," ","a","n","d"," ","n","e","x","t"," ","s","t","e","p","s",".","\n">>
    \o <<"\n","T","h","e"," ","p","a","t","i","e","n","t"," ","a","l","s","o"," ","m","e","n","t","i","o","n","e","d"," ">>
    \o <<"e","x","p","e","r","i","e","n","c","i","n","g"," ","f","a","t","i","g","u","e"," ","t","h","a","t"," ">>
    \o <<"s","t","a","r","t","e","d"," ","l","a","s","t"," ","m","o","n","t","h","."," ","B","l","o","o","d"," ">>
    \o <<"w","o","r","k"," ","w","a","s"," ","o","r","d","e","r","e","d"," ","a","n","d"," ","c","o","m","p","l","e","t","e","d"," ">>
    \o <<"o","n"," ","A","u","g","u","s","t"," ","2","0",","," ","2","0","2","5","."," ","R","e","s","u","l","t","s"," ">>
    \o <<"s","h","o","w","e","d"," ","s","l","i","g","h","t","l","y"," ","e","l","e","v","a","t","e","d"," ">>
    \o <<"w","h","i","t","e"," ","b","l","o","o","d"," ","c","e","l","l"," ","c","o","u","n","t",".","\n">>
    \o <<"\n","F","o","l","l","o","w","-","u","p"," ","s","c","h","e","d","u","l","e","d"," ","f","o","r"," ">>
    \o <<"S","e","p","t","e","m","b","e","r"," ","5",","," ","2","0","2","5",".">>

(***************************************************************************)
(* Inputs                                                                  *)
(***************************************************************************)
\* longest text, in sentences of the pool
MaxSentences == 2
\* largest number of months added or subtracted
MaxMonths == 14
\* longest sentence categorized, in words
MaxWords == 3
\* largest decimal numeral of a relative expression
MaxNumber == 4

Date(y, m, d) == [year |-> y, month |-> m, day |-> d]

\* data['reference_date'] of the requests that carry one, and what the clock
\* reads when a request carries none that parses
RefDates == {Date(2025, 8, 22)}
Clock == {Date(2024, 3, 31)}

Pool ==
    << <<"P","a","t","i","e","n","t"," ","s","e","e","n"," ","t","o","d","a","y"," ","a","n","d"," ","a","g","a","i","n"," ","t","o","d","a","y">>,
       <<"R","e","s","u","l","t","s"," ","a","r","e"," ","p","e","n","d","i","n","g">>,
       <<"W","a","l","k"," ","o","n"," ","2","2","/","0","8","/","2","0","2","5">>,
       <<"E","x","a","m"," ","A","p","r","i","l"," ","3","1",","," ","2","0","2","5",","," ","t","h","e","n"," ","M","a","y"," ","5",","," ","2","0","2","5">>,
       <<"F","e","v","e","r"," ","s","u","b","s","i","d","e","d"," ","a","f","t","e","r"," ","5"," ","d","a","y","s">>,
       <<"S","y","m","p","t","o","m","s"," ","b","e","g","a","n"," ","t","h","r","e","e"," ","w","e","e","k","s"," ","a","g","o">>,
       <<"T","e","s","t"," ","o","n"," ","2","2","/","0","8","/","2","0","2","5"," ","p","e","n","d","i","n","g">>,
       <<"T","O","D","A","Y">> >>

\* the sentences of choice, each closed by a full stop, separated by a space
RECURSIVE Join(_, _)
Join(choice, k) ==
    IF k > Len(choice) THEN <<>>
    ELSE (IF k > 1 THEN <<" ">> ELSE <<>>) \o Pool[choice[k]] \o <<".">> \o Join(choice, k + 1)

Texts ==
    {sample_text, <<>>, <<" ", "\n">>}
    \cup {Join(choice, 1) : choice \in UNION {[1..n -> 1..Len(Pool)] : n \in 1..MaxSentences}}

\* dates given to _add_months: month ends, leap days, both ends of the calendar
MonthDates ==
    {Date(2025, 1, 31), Date(2024, 1, 31), Date(2024, 2, 29), Date(2023, 3, 31),
     Date(2025, 8, 22), Date(2000, 12, 15), Date(1900, 1, 30), Date(2024, 12, 31),
     Date(1, 1, 31), Date(1, 12, 1), Date(9999, 1, 31), Date(9999, 12, 31)}

\* words of the sentences given to _categorize_event
Words ==
    <<<<"s","t","a","r","t","e","d">>, <<"f","e","v","e","r">>, <<"d","o","s","e">>, <<"v","i","s","i","t">>, <<"n","o","t","e","d">>, <<"L","A","T","E","S","T">>, <<"w","a","l","k">>>>

RECURSIVE JoinWords(_, _)
JoinWords(choice, k) ==
    IF k > Len(choice) THEN <<>>
    ELSE (IF k > 1 THEN <<" ">> ELSE <<>>) \o Words[choice[k]] \o JoinWords(choice, k + 1)

WordSentences ==
    {JoinWords(choice, 1) : choice \in UNION {[1..n -> 1..Len(Words)] : n \in 0..MaxWords}}

\* relative-past expressions: a number (as a word or a numeral), a unit, the
\* form ("for the past" or a word after the unit) and the whitespace between
\* the words (a space or a line break)
NumberWords == <<<<"o","n","e">>, <<"t","w","o">>, <<"t","h","r","e","e">>>>
Units ==
    <<<<"d","a","y">>, <<"d","a","y","s">>, <<"w","e","e","k">>, <<"w","e","e","k","s">>, <<"m","o","n","t","h">>, <<"m","o","n","t","h","s">>, <<"y","e","a","r">>, <<"y","e","a","r","s">>>>
PastForms == <<<<"f","o","r"," ","t","h","e"," ","p","a","s","t">>, <<"a","g","o">>, <<"p","r","i","o","r">>, <<"b","e","f","o","r","e">>, <<"e","a","r","l","i","e","r">>>>
Gaps == {" ", "\n"}
NormalizeDates == {Date(2025, 8, 22), Date(2024, 3, 31), Date(2023, 1, 1)}

\* the decimal numeral of n
Numeral(n) == Pad(n, 1)

\* s with every space replaced by gap
WithGap(s, gap) == [i \in 1..Len(s) |-> IF s[i] = " " THEN gap ELSE s[i]]

\* '<number> <unit> <form>', or 'for the past <number> <unit>'
PastExpression(number_text, unit, form, gap) ==
    WithGap(IF form = 1
            THEN PastForms[1] \o <<" ">> \o number_text \o <<" ">> \o Units[unit]
            ELSE number_text \o <<" ">> \o Units[unit] \o <<" ">> \o PastForms[form], gap)

(***************************************************************************)
(* The service: a client posts a request, the handler answers it           *)
(***************************************************************************)
VARIABLES
    pc,               \* "idle", "request" (a request is posted), "response" (it is
                      \* answered), "returned" (a call of a method has returned)
    medical_text,     \* data['medical_text']
    reference_date_str, \* data['reference_date'] as a date, None when it does not parse
    reference_date,   \* the extractor's reference_date
    events,           \* extractor.extract_dates_and_events(medical_text)
    trace,            \* per piece of the split, what the extractor's loop did
    response,         \* the JSON response
    call,             \* the method called and its arguments
    result            \* what it returned

vars == <<pc, medical_text, reference_date_str, reference_date, events, trace, response,
          call, result>>

NoCall == [fn |-> "none"]

Init ==
    /\ pc = "idle"
    /\ medical_text = <<>>
    /\ reference_date_str = None
    /\ reference_date = None
    /\ events = <<>>
    /\ trace = <<>>
    /\ response = NoResponse
    /\ call = NoCall
    /\ result = None

\* the client posts a request
Post ==
    /\ pc = "idle"
    /\ pc' = "request"
    /\ medical_text' \in Texts
    /\ reference_date_str' \in RefDates \cup {None}
    /\ UNCHANGED <<reference_date, events, trace, response, call, result>>

\* POST /analyze
analyze_medical_text ==
    /\ pc = "request"
    /\ pc' = "response"
    /\ UNCHANGED <<medical_text, reference_date_str, call, result>>
    /\ IF Strip(medical_text) = <<>>
       THEN /\ response' = Failure(400)
            /\ UNCHANGED <<reference_date, events, trace>>
       ELSE \* datetime.fromisoformat, or datetime.now() when it raises
            /\ \E now \in (IF reference_date_str # None THEN {reference_date_str} ELSE Clock) :
                  reference_date' = now
            /\ trace' = LoopRecords(reference_date', ReSplit(medical_text))
            /\ events' = EventsOf(trace', 1)
            /\ response' = Timeline(events')

\* the client takes the response, or the caller the value returned; nothing
\* is kept between requests or calls
Receive ==
    /\ pc \in {"response", "returned"}
    /\ pc' = "idle"
    /\ medical_text' = <<>>
    /\ reference_date_str' = None
    /\ reference_date' = None
    /\ events' = <<>>
    /\ trace' = <<>>
    /\ response' = NoResponse
    /\ call' = NoCall
    /\ result' = None

Next == Post \/ analyze_medical_text \/ Receive

Spec == Init /\ [][Next]_vars

(***************************************************************************)
(* The methods called on their own                                         *)
(***************************************************************************)
Service == <<medical_text, reference_date_str, reference_date, events, trace, response>>

\* extractor._add_months(date, months)
CallAddMonths ==
    /\ pc = "idle"
    /\ pc' = "returned"
    /\ \E date \in MonthDates, months \in (-MaxMonths)..MaxMonths :
          /\ call' = [fn |-> "_add_months", date |-> date, months |-> months]
          /\ result' = _add_months(date, months)
    /\ UNCHANGED Service

NextAddMonths == CallAddMonths \/ Receive

SpecAddMonths == Init /\ [][NextAddMonths]_vars

\* extractor._categorize_event(text)
CallCategorize ==
    /\ pc = "idle"
    /\ pc' = "returned"
    /\ \E text \in WordSentences :
          /\ call' = [fn |-> "_categorize_event", text |-> text]
          /\ result' = _categorize_event(text)
    /\ UNCHANGED Service

NextCategorize == CallCategorize \/ Receive

SpecCategorize == Init /\ [][NextCategorize]_vars

\* extractor._extract_dates_from_sentence(sentence) on a relative-past
\* expression, with self.reference_date = date
CallExtractPast ==
    /\ pc = "idle"
    /\ pc' = "returned"
    /\ \E date \in NormalizeDates, number \in 0..(MaxNumber + Len(NumberWords)),
          unit \in 1..Len(Units), form \in 1..Len(PastForms), gap \in Gaps :
          /\ call' = [fn |-> "_extract_dates_from_sentence", reference_date |-> date,
                      \* the numbers above MaxNumber stand for the words one, two, three
                      number |-> IF number > MaxNumber THEN number - MaxNumber ELSE number,
                      unit |-> unit, form |-> form, gap |-> gap,
                      sentence |-> PastExpression(IF number > MaxNumber
                                                  THEN NumberWords[number - MaxNumber]
                                                  ELSE Numeral(number), unit, form, gap)]
          /\ result' = _extract_dates_from_sentence(date, call'.sentence)
    /\ UNCHANGED Service

NextExtractPast == CallExtractPast \/ Receive

SpecExtractPast == Init /\ [][NextExtractPast]_vars

(***************************************************************************)
(* Properties.  What a property expects is written here on its own, from   *)
(* positions, ordinals and the Gregorian rules, and compared with what the *)
(* operators above computed.                                               *)
(***************************************************************************)
\* word occurs in s, whatever the case of the letters of s
Mentions(s, word) ==
    \E p \in 1..(Len(s) - Len(word) + 1) :
        \A k \in 1..Len(word) : LowerChar(s[p + k - 1]) = word[k]

\* the sentence holds one of the medical indicators
Indicated(sentence) ==
    \E i \in 1..Len(medical_indicators) : Mentions(sentence, medical_indicators[i])

\* the events of list dated v, in the order of list
RECURSIVE DatedAs(_, _)
DatedAs(list, v) ==
    IF list = <<>> THEN <<>>
    ELSE (IF Head(list).date = v THEN <<Head(list)>> ELSE <<>>) \o DatedAs(Tail(list), v)

\* the day an ISO date names, as the number YYYYMMDD
Chrono(iso) ==
    10000 * ParseInt(SubSeq(iso, 1, 4)) + 100 * ParseInt(SubSeq(iso, 6, 7))
    + ParseInt(SubSeq(iso, 9, 10))

Dated(list) == {i \in 1..Len(list) : list[i].date # NoDate}
Undated(list) == {i \in 1..Len(list) : list[i].date = NoDate}

\* C1: in the events of every response, each event without a date comes
\* after each event with a date, wherever their sentences stood in the text
C1_UndatedAfterDated ==
    \A i \in Undated(response.events) : \A j \in Dated(response.events) : j < i

\* a response to a text in which an undated event was emitted before a dated one
C1_Witness ==
    /\ pc = "response"
    /\ \E i \in Undated(events) : \E j \in Dated(events) : i < j
    /\ Undated(response.events) # {} /\ Dated(response.events) # {}

\* C2: the dated events of a response ascend by ISO date, which is the order
\* of the days; the events of one date, and the undated events, stand in the
\* order extract_dates_and_events emitted them; the response holds the
\* emitted events and no other
C2_SortedStable ==
    (pc = "response" /\ response.success) =>
        /\ Len(response.events) = Len(events)
        /\ \A i, j \in Dated(response.events) :
              i < j => /\ ~StrLess(response.events[j].date, response.events[i].date)
                       /\ Chrono(response.events[i].date) <= Chrono(response.events[j].date)
        /\ \A v \in {events[i].date : i \in 1..Len(events)}
                    \cup {response.events[i].date : i \in 1..Len(response.events)} :
              DatedAs(response.events, v) = DatedAs(events, v)

\* a response to a text that emitted two different events of one date, and a
\* later date before an earlier one
C2_Witness ==
    /\ pc = "response"
    /\ \E i, j \in Dated(events) : i < j /\ events[i].date = events[j].date
                                   /\ events[i] # events[j]
    /\ \E i, j \in Dated(events) : i < j /\ StrLess(events[j].date, events[i].date)

\* the days of month m of year y in the Gregorian calendar
MonthLength(y, m) ==
    CASE m = 2 -> IF (y % 4 = 0 /\ y % 100 # 0) \/ y % 400 = 0 THEN 29 ELSE 28
      [] m \in {4, 6, 9, 11} -> 30
      [] OTHER -> 31

\* d moved by k months: the months counted from year 0, the day clamped
MonthShift(d, k) ==
    LET total == 12 * d.year + (d.month - 1) + k
    IN  [year |-> total \div 12, month |-> (total % 12) + 1,
         day |-> IF d.day <= MonthLength(total \div 12, (total % 12) + 1)
                 THEN d.day ELSE MonthLength(total \div 12, (total % 12) + 1)]

\* the days from 0001-01-01 to d, by counting the months one by one
RECURSIVE DayNumber(_)
DayNumber(d) ==
    IF d.month = 1
    THEN 365 * (d.year - 1) + ((d.year - 1) \div 4) - ((d.year - 1) \div 100)
         + ((d.year - 1) \div 400) + d.day
    ELSE DayNumber([d EXCEPT !.month = @ - 1, !.day = MonthLength(d.year, d.month - 1)]) + d.day

IsDate(d) ==
    /\ d.year >= MINYEAR /\ d.year <= MAXYEAR /\ d.month \in 1..12
    /\ d.day >= 1 /\ d.day <= MonthLength(d.year, d.month)

Extracted == pc = "returned" /\ call.fn = "_extract_dates_from_sentence"

\* whether date is the reference date of the call moved back by its number
\* of its units
MovedBack(date) ==
    /\ IsDate(date)
    /\ CASE call.unit \in {1, 2} ->
              DayNumber(date) = DayNumber(call.reference_date) - call.number
         [] call.unit \in {3, 4} ->
              DayNumber(date) = DayNumber(call.reference_date) - 7 * call.number
         [] call.unit \in {5, 6} -> date = MonthShift(call.reference_date, -call.number)
         [] call.unit \in {7, 8} -> date = MonthShift(call.reference_date, -12 * call.number)

\* C3: every relative-past expression '<N> <unit> ago|prior|before|earlier'
\* or 'for the past <N> <unit>' the bank matches is normalized to the
\* reference date minus N units, in a DateMatch of confidence medium
C3_RelativePast ==
    Extracted =>
        /\ \E j \in 1..Len(result) : result[j].original_text = call.sentence
        /\ \A j \in 1..Len(result) :
              result[j].original_text = call.sentence =>
                  MovedBack(result[j].normalized_date) /\ result[j].confidence = "medium"

Added == pc = "returned" /\ call.fn = "_add_months"

\* C4: _add_months(d, k) returns d moved by k months with the day clamped to
\* the target month when the target year is within MINYEAR..MAXYEAR, and
\* raises ValueError when it is not
C4_AddMonthsInCalendar ==
    Added =>
        IF MonthShift(call.date, call.months).year \in MINYEAR..MAXYEAR
        THEN result = MonthShift(call.date, call.months)
        ELSE result = Raised

\* a call that borrowed a year and clamped the day
C4_Witness ==
    /\ Added
    /\ call.months < 0
    /\ result # Raised
    /\ result.year < call.date.year
    /\ result.day < call.date.day

\* C4 as stated: for every date and every k, _add_months returns d moved by
\* k months with the day clamped, and never fails
C4_AddMonthsNeverFails ==
    Added => result # Raised /\ result = MonthShift(call.date, call.months)

\* C5: _add_months(2025-01-31, 1) is 2025-02-28 and _add_months(2024-01-31, 1)
\* is 2024-02-29
C5_JanuaryPlusOne ==
    (Added /\ call.months = 1) =>
        /\ call.date = Date(2025, 1, 31) => result = Date(2025, 2, 28)
        /\ call.date = Date(2024, 1, 31) => result = Date(2024, 2, 29)

\* the call on the last of January of a leap year
C5_Witness ==
    /\ Added
    /\ call.date = Date(2024, 1, 31)
    /\ call.months = 1
    /\ result.month = 2

\* C5 as stated: _add_months(2025-01-31, -1) is 2025-02-28 and
\* _add_months(2024-01-31, -1) is 2024-02-29
C5_JanuaryMinusOne ==
    (Added /\ call.months = -1) =>
        /\ call.date = Date(2025, 1, 31) => result = Date(2025, 2, 28)
        /\ call.date = Date(2024, 1, 31) => result = Date(2024, 2, 29)

Categorized == pc = "returned" /\ call.fn = "_categorize_event"

\* the keywords of category c that text mentions
Mentioned(text, c) ==
    Cardinality({i \in 1..Len(medical_keywords[c]) : Mentions(text, medical_keywords[c][i])})

\* C6: _categorize_event returns the category that mentions most keywords,
\* the first such in the order of Categories, and the last category when no
\* keyword is mentioned
C6_Categorize ==
    Categorized =>
        IF \A c \in 1..Len(Categories) : Mentioned(call.text, c) = 0
        THEN result = "Other Clinical Observations"
        ELSE \E c \in 1..Len(Categories) :
                /\ result = Categories[c]
                /\ \A d \in 1..Len(Categories) : Mentioned(call.text, d) <= Mentioned(call.text, c)
                /\ \A d \in 1..(c - 1) : Mentioned(call.text, d) < Mentioned(call.text, c)

\* a call on a sentence in which two categories share the largest score
C6_Witness ==
    /\ Categorized
    /\ \E c, d \in 1..Len(Categories) :
          /\ c < d
          /\ result = Categories[c]
          /\ Mentioned(call.text, c) > 0
          /\ Mentioned(call.text, c) = Mentioned(call.text, d)
          /\ \A x \in 1..Len(Categories) : Mentioned(call.text, x) <= Mentioned(call.text, c)

\* the hit was normalized to a date
Resolved(hit) == hit.normalized_date # None /\ hit.normalized_date # Raised

\* an event's date is absent exactly when its confidence is low, and exactly
\* when its date_text is the sentinel
AbsentIffLow(e) ==
    /\ (e.date = NoDate) <=> (e.confidence = "low")
    /\ (e.date = NoDate) <=> (e.date_text = DateNotSpecified)

\* C7: a sentence with DateMatches yields one event per DateMatch, with a
\* date, the matched text and confidence high or medium; a sentence without,
\* that holds a medical indicator, yields one undated event of confidence low
\* that describes the whole sentence; any other sentence yields no event.  So
\* a date is absent exactly from the low-confidence events that carry the
\* sentinel, and the events of a sentence have one category
C7_SentenceEvents ==
    /\ \A k \in 1..Len(trace) :
          /\ SelectSeq(trace[k].hits, Resolved) # <<>> =>
                /\ Len(trace[k].events) = Len(SelectSeq(trace[k].hits, Resolved))
                /\ \A j \in 1..Len(trace[k].events) :
                      /\ trace[k].events[j].date # NoDate
                      /\ trace[k].events[j].date_text
                            = SelectSeq(trace[k].hits, Resolved)[j].original_text
                      /\ trace[k].events[j].confidence \in {"high", "medium"}
                      /\ trace[k].events[j].original_text = trace[k].sentence
          /\ (SelectSeq(trace[k].hits, Resolved) = <<>> /\ Indicated(trace[k].sentence)) =>
                /\ Len(trace[k].events) = 1
                /\ trace[k].events[1].date = NoDate
                /\ trace[k].events[1].date_text = DateNotSpecified
                /\ trace[k].events[1].event_description = trace[k].sentence
                /\ trace[k].events[1].confidence = "low"
          /\ (SelectSeq(trace[k].hits, Resolved) = <<>> /\ ~Indicated(trace[k].sentence)) =>
                trace[k].events = <<>>
          /\ \A i, j \in 1..Len(trace[k].events) :
                trace[k].events[i].category = trace[k].events[j].category
          /\ \A j \in 1..Len(trace[k].events) : AbsentIffLow(trace[k].events[j])
    /\ \A i \in 1..Len(response.events) : AbsentIffLow(response.events[i])

\* a text with a sentence of several DateMatches and a sentence without any
\* that holds an indicator
C7_Witness ==
    /\ pc = "response"
    /\ \E k \in 1..Len(trace) : Len(trace[k].events) > 1
    /\ \E k \in 1..Len(trace) :
          /\ trace[k].hits = <<>>
          /\ Len(trace[k].events) = 1
          /\ trace[k].events[1].confidence = "low"

\* C8: a hit whose normalization fails raises nothing and leaves no event;
\* the hits of the sentence that were normalized have their events; a
\* sentence whose hits all fail is handled as a sentence without dates
C8_FailedHitDropped ==
    /\ (pc = "response" /\ Strip(medical_text) # <<>>) => response.status = 200
    /\ \A k \in 1..Len(trace) :
          /\ \A j \in 1..Len(trace[k].hits) :
                /\ trace[k].hits[j].normalized_date # Raised
                /\ IF trace[k].hits[j].normalized_date = None
                   THEN \A i \in 1..Len(trace[k].events) :
                           trace[k].events[i].date_text # trace[k].hits[j].original_text
                   ELSE \E i \in 1..Len(trace[k].events) :
                           /\ trace[k].events[i].date_text = trace[k].hits[j].original_text
                           /\ Chrono(trace[k].events[i].date)
                                 = 10000 * trace[k].hits[j].normalized_date.year
                                   + 100 * trace[k].hits[j].normalized_date.month
                                   + trace[k].hits[j].normalized_date.day
          /\ (\A j \in 1..Len(trace[k].hits) : trace[k].hits[j].normalized_date = None) =>
                IF Indicated(trace[k].sentence)
                THEN /\ Len(trace[k].events) = 1
                     /\ trace[k].events[1].date = NoDate
                     /\ trace[k].events[1].confidence = "low"
                ELSE trace[k].events = <<>>

\* a text with a sentence in which one hit failed and another was normalized,
\* and a sentence whose only hit failed and that holds an indicator
C8_Witness ==
    /\ pc = "response"
    /\ \E k \in 1..Len(trace) :
          /\ \E j \in 1..Len(trace[k].hits) : trace[k].hits[j].normalized_date = None
          /\ \E j \in 1..Len(trace[k].hits) : trace[k].hits[j].normalized_date # None
          /\ trace[k].events # <<>>
    /\ \E k \in 1..Len(trace) :
          /\ trace[k].hits # <<>>
          /\ \A j \in 1..Len(trace[k].hits) : trace[k].hits[j].normalized_date = None
          /\ Len(trace[k].events) = 1

OccursAt(s, t, i) ==
    i + Len(t) - 1 <= Len(s) /\ \A k \in 1..Len(t) : s[i + k - 1] = t[k]

\* s from position i on, without the occurrences of t met from left to right
RECURSIVE Without(_, _, _)
Without(s, t, i) ==
    IF i > Len(s) THEN <<>>
    ELSE IF OccursAt(s, t, i) THEN Without(s, t, i + Len(t))
    ELSE <<s[i]>> \o Without(s, t, i + 1)

\* s without the first occurrence of t
WithoutFirst(s, t) ==
    IF \A i \in 1..Len(s) : ~OccursAt(s, t, i) THEN s
    ELSE LET i == CHOOSE i \in 1..Len(s) :
                     OccursAt(s, t, i) /\ \A j \in 1..(i - 1) : ~OccursAt(s, t, j)
         IN  SubSeq(s, 1, i - 1) \o SubSeq(s, i + Len(t), Len(s))

\* the words of s separated by single spaces: a whitespace character stays,
\* as a space, when it follows a word and a word follows it
Tidy(s) ==
    LET word == {i \in 1..Len(s) : s[i] \notin Whitespace}
        stay == word \cup {i \in 1..Len(s) : /\ s[i] \in Whitespace
                                             /\ i - 1 \in word
                                             /\ \E j \in word : j > i}
        picked == Pick(s, stay)
    IN  [k \in 1..Len(picked) |-> IF picked[k] \in Whitespace THEN " " ELSE picked[k]]

\* cleaned, or the sentence when cleaned is empty
Described(cleaned, sentence) == IF cleaned = <<>> THEN sentence ELSE cleaned

\* C9: the description of a dated event is its sentence without any
\* occurrence of the matched text, its words separated by single spaces, and
\* the sentence itself when nothing is left
C9_EveryOccurrenceRemoved ==
    \A i \in Dated(events) :
        events[i].event_description
            = Described(Tidy(Without(events[i].original_text, events[i].date_text, 1)),
                        events[i].original_text)

\* a dated event whose sentence holds the matched text twice
C9_Witness ==
    /\ pc = "response"
    /\ \E i \in Dated(events) :
          /\ Cardinality(Occurrences(events[i].original_text, events[i].date_text)) > 1
          /\ events[i].event_description # events[i].original_text

\* C9 as stated: the description of a dated event is its sentence without
\* the first occurrence of the matched text, the later occurrences left in
C9_FirstOccurrenceOnly ==
    \A i \in Dated(events) :
        events[i].event_description
            = Described(Tidy(WithoutFirst(events[i].original_text, events[i].date_text)),
                        events[i].original_text)

\* the sample note answered with reference date 2025-08-22
SampleAnswered ==
    pc = "response" /\ medical_text = sample_text /\ reference_date = Date(2025, 8, 22)

\* the dated events of the response are sorted, none before earliest and none
\* after latest, and an undated event of confidence low follows them
SampleWithin(earliest, latest) ==
    /\ response.dated_events > 0
    /\ \A i \in 1..Len(response.events) :
          (i <= response.dated_events) = (response.events[i].date # NoDate)
    /\ \A i \in 1..response.dated_events :
          /\ Chrono(response.events[i].date) >= earliest
          /\ Chrono(response.events[i].date) <= latest
          /\ i > 1 => Chrono(response.events[i - 1].date) <= Chrono(response.events[i].date)
    /\ \E i \in Undated(response.events) : response.events[i].confidence = "low"

\* C10: on the sample note with reference date 2025-08-22 the dated events
\* are sorted and lie between 2025-07-22, the day 'last month' resolves to,
\* and 2025-09-05, both reached; an undated event of confidence low follows
C10_SampleFromLastMonth ==
    SampleAnswered =>
        /\ SampleWithin(20250722, 20250905)
        /\ Chrono(response.events[1].date) = 20250722
        /\ response.events[1].date_text = <<"l","a","s","t"," ","m","o","n","t","h">>
        /\ Chrono(response.events[response.dated_events].date) = 20250905

\* the sample note answered, with its dated and undated events
C10_Witness ==
    /\ SampleAnswered
    /\ response.dated_events > 1
    /\ response.undated_events > 0

\* C10 as stated: on the sample note with reference date 2025-08-22 no dated
\* event is earlier than 2025-08-20, the earliest date written in the note,
\* and none later than 2025-09-05
C10_SampleWithinLiterals == SampleAnswered => SampleWithin(20250820, 20250905)

\* the positions of the sentence at which a hit matched text
SpansOf(hits, text) ==
    {hits[j].start : j \in {i \in 1..Len(hits) : hits[i].original_text = text}}

\* the events of the sentence whose matched text is text
EventsFor(list, text) == {i \in Dated(list) : list[i].date_text = text}

\* C11: the events of a sentence hold at most one event per matched span of
\* the sentence, also when several patterns of the bank hit that span
C11_OneEventPerSpan ==
    \A k \in 1..Len(trace) :
        \A j \in 1..Len(trace[k].hits) :
            Cardinality(EventsFor(trace[k].events, trace[k].hits[j].original_text))
                <= Cardinality(SpansOf(trace[k].hits, trace[k].hits[j].original_text))

=============================================================================
